---------------------------- MODULE Spec2Model ----------------------------
(***************************************************************************)
(* Formulation builders and solve adapters of lpdec:                       *)
(*   lpdec/decoders/staticlp.py  StaticLPDecoder (local code polytopes,    *)
(*                               cascaded formulation, LP statistics)      *)
(*   lpdec/decoders/ip.py        CplexIPDecoder, GurobiIPDecoder           *)
(*                               (direct IP formulation, fix/release,      *)
(*                               minimumDistance, solve)                   *)
(*                                                                         *)
(* Five specifications share the module:                                   *)
(*   SpecLocal    one call of createLocalCodePolytope, loop by loop        *)
(*   SpecCascade  StaticLPDecoder.__init__ for one parity-check row        *)
(*   SpecIP       the constructors of the two IP decoders                  *)
(*   SpecOps      the operations of a constructed IP decoder               *)
(*   SpecSolve    repeated solve calls of GurobiIPDecoder, StaticLPDecoder *)
(***************************************************************************)
EXTENDS Integers, Sequences, FiniteSets, TLC

VARIABLES
    \* ---- createLocalCodePolytope (staticlp.py 75-102) ----
    lq,          \* self.code.q
    lh,          \* h, the local parity-check row (all entries nonzero)
    lpc,         \* "enum" | "consis" | "done" | "error"
    codewords,   \* the list codewords
    auxVars,     \* the list auxVars (names <<"w", i>>, i the enumeration index)
    lcons,       \* constraints added to the model, in order
    lpos,        \* <<i, alpha>> of the loops at lines 93-94
    \* ---- StaticLPDecoder.__init__ for one row (staticlp.py 27-73) ----
    cq,          \* code.q
    crow,        \* row, one row of code.parityCheckMatrix
    cascade,     \* self.cascade
    cpc,         \* "start" | "link0" | "mid" | "built" | "error" | "evaluated"
    chi,         \* the carry variables chi[i, alpha] created at lines 42-45
    polys,       \* the local code polytopes added to the model, in order
    cl,          \* l of the loop at line 52
    cx,          \* a symbol assignment tried against the built model
    accepted,    \* whether the built model admits cx
    \* ---- constructors of the IP decoders (ip.py 32-46, 112-157) ----
    ikind,       \* "Cplex" | "Gurobi"
    iq,          \* code.q
    iH,          \* code.parityCheckMatrix, a sequence of rows
    ipc,         \* "new" | "x" | "pos" | "z" | "built" | "TypeError" | "evaluated"
    ixkeys,      \* "list" (self.x a list) | "dict" (self.x keyed by (i, k)) | "none"
    iposc,       \* number of constraints added at lines 141-143
    iz,          \* self.z: per row the declared bounds of z[j]
    irows,       \* the row equalities added to the model
    ix,          \* a symbol vector tried against the built model
    iaccept,     \* whether the built model admits ix
    \* ---- operations of a constructed decoder ----
    okind,       \* "CplexIP" | "GurobiIP" | "StaticLP"
    oq,          \* code.q
    opc,         \* "idle" | "minDist" (inside minimumDistance, before solve returns)
    modelVars,   \* the variables of the backend model
    modelConstrs,\* the names of the constraints of the backend model, in order
    lbs,         \* lower bounds of self.x
    ubs,         \* upper bounds of self.x
    objective,   \* "llrs" | "ones": the objective set by the last setLLRs
    sent,        \* whether self.sent is not None
    incObj,      \* self.model._incObj (NoneVal when None or unset)
    objectiveValue, \* self.objectiveValue (NoneVal before the first solve)
    mlCertificate,  \* self.mlCertificate
    solution,    \* self.solution, as the objective of the incumbent read (NoneVal: none yet)
    nodes,       \* self._stats["nodes"]
    simplexIters,\* self._stats["simplexIters"]
    lpTime,      \* self._stats["lpTime"], in ticks
    backend,     \* what the backend reported to the last optimize call of a decoder
                 \* whose solve is in the sources (GurobiIP, StaticLP)
    lastCall,    \* the last call made by the user and how it ended
    mdFailed,    \* some minimumDistance call has ended with an exception
    hist         \* the bounds and the model before the last fix (for fix/release)

localVars == <<lq, lh, lpc, codewords, auxVars, lcons, lpos>>

cascadeVars == <<cq, crow, cascade, cpc, chi, polys, cl, cx, accepted>>

ipVars == <<ikind, iq, iH, ipc, ixkeys, iposc, iz, irows, ix, iaccept>>

opsVars == <<okind, oq, opc, modelVars, modelConstrs, lbs, ubs, objective, sent, incObj,
             objectiveValue, mlCertificate, solution, nodes, simplexIters, lpTime,
             backend, lastCall, mdFailed, hist>>

(***************************************************************************)
(* Bounds of the model                                                     *)
(***************************************************************************)
\* largest arity d of a row handed to createLocalCodePolytope in SpecLocal
LocalMaxD == 3

\* field sizes q (primes) of SpecLocal
LocalFieldSizes == {2, 3, 5}

\* length n of the parity-check row of SpecCascade
CascadeRowLen == 5

\* field sizes q (primes) of SpecCascade
CascadeFieldSizes == {2, 3}

\* blocklength n of the one-row codes of SpecIP
IPRowLen == 2

\* field sizes q (primes) of SpecIP
IPFieldSizes == {2, 3, 5}

\* blocklength n of the decoders of SpecOps
NPos == 2

\* objective values reported by the backend are 0..MaxObj
MaxObj == 1

\* the backend reports 0..MaxCount nodes, iterations or ticks per solve
MaxCount == 1

\* the statistics counters are followed up to MaxStat
MaxStat == 2

\* minimumDistance is followed while fewer than MaxStale of its constraints
\* are in the model
MaxStale == 1

\* None, for the integer-valued attributes
NoneVal == -1

(***************************************************************************)
(* The variables of a component a specification does not use               *)
(***************************************************************************)
LocalUnused ==
    /\ lq = 2 /\ lh = <<1>> /\ lpc = "unused" /\ codewords = <<>>
    /\ auxVars = <<>> /\ lcons = <<>> /\ lpos = <<1, 1>>

CascadeUnused ==
    /\ cq = 2 /\ crow = <<1>> /\ cascade = FALSE /\ cpc = "unused" /\ chi = {}
    /\ polys = <<>> /\ cl = 0 /\ cx = <<>> /\ accepted = FALSE

IPUnused ==
    /\ ikind = "Cplex" /\ iq = 2 /\ iH = <<>> /\ ipc = "unused" /\ ixkeys = "none"
    /\ iposc = 0 /\ iz = <<>> /\ irows = <<>> /\ ix = <<>> /\ iaccept = FALSE

NoBackend == [status |-> "none", cb |-> NoneVal, objVal |-> NoneVal, count |-> 0, dur |-> 0]

NoCall == [op |-> "none", idx |-> 0, val |-> 0, outcome |-> "ok"]

NoHist == [phase |-> "none", idx |-> 0, val |-> 0, lb |-> <<>>, ub |-> <<>>, vars |-> {},
           constrs |-> <<>>]

OpsUnused ==
    /\ okind = "none" /\ oq = 2 /\ opc = "unused" /\ modelVars = {} /\ modelConstrs = <<>>
    /\ lbs = <<>> /\ ubs = <<>> /\ objective = "llrs" /\ sent = FALSE /\ incObj = NoneVal
    /\ objectiveValue = NoneVal /\ mlCertificate = TRUE /\ solution = NoneVal /\ nodes = 0
    /\ simplexIters = 0 /\ lpTime = 0 /\ backend = NoBackend /\ lastCall = NoCall
    /\ mdFailed = FALSE /\ hist = NoHist

(***************************************************************************)
(* Arithmetic helpers                                                      *)
(***************************************************************************)
RECURSIVE Pow(_, _)
Pow(b, e) == IF e = 0 THEN 1 ELSE b * Pow(b, e - 1)

\* np.dot of two equally long integer sequences
RECURSIVE Dot(_, _)
Dot(a, b) == IF Len(a) = 0 THEN 0 ELSE a[1] * b[1] + Dot(Tail(a), Tail(b))

\* nonbinary.inv(a, q): the multiplicative inverse of a in GF(q)
inv(a, q) == CHOOSE b \in 1..(q - 1) : (a * b) % q = 1

\* the sequence s without its last element: h[:-1]
Front(s) == SubSeq(s, 1, Len(s) - 1)

(***************************************************************************)
(* createLocalCodePolytope: enumeration of the local codewords             *)
(***************************************************************************)
\* the i-th tuple (i from 0) of itertools.product(range(q), repeat=n):
\* lexicographic order, last position varying fastest
ProductAt(i, n, q) == [p \in 1..n |-> (i \div Pow(q, n - p)) % q]

\* faulty variant of LastSymbol: the sign of modq dropped
LastSymbolNoNegation(modq, hlast, q) == (modq * inv(hlast, q)) % q

\* line 86: -modq * nonbinary.inv(h[-1], q) % q  (Python: ((-modq) * inv) % q)
LastSymbol(modq, hlast, q) == ((0 - modq) * inv(hlast, q)) % q

\* lines 83-87: the localword appended in iteration i of the loop
CodewordAt(i, h, q) ==
    LET localword == ProductAt(i, Len(h) - 1, q)
        modq      == Dot(localword, Front(h)) % q
    IN  Append(localword, LastSymbol(modq, h[Len(h)], q))

\* number of iterations of the loop at line 83: q^(d-1)
NumLocalwords(h, q) == Pow(q, Len(h) - 1)

\* faulty variant of Taken: any(...) replaced by all(...)
TakenByAll(cws, i, alpha) == \A k \in 1..Len(cws) : cws[k][i] = alpha

\* line 95: any(codeword[i] == alpha for codeword in codewords)
Taken(cws, i, alpha) == \E k \in 1..Len(cws) : cws[k][i] = alpha

\* lines 96-97: the auxiliary variables summed in the constraint of (i, alpha)
ConsisVars(cws, i, alpha) == {<<"w", k - 1>> : k \in {kk \in 1..Len(cws) : cws[kk][i] = alpha}}

\* the pair after (i, alpha) in the loops at lines 93-94 (i from 1 here)
NextPos(pos, q) == IF pos[2] < q - 1 THEN <<pos[1], pos[2] + 1>> ELSE <<pos[1] + 1, 1>>

(***************************************************************************)
(* SpecLocal: one call createLocalCodePolytope(jname, h, xvars)            *)
(***************************************************************************)
LocalInit ==
    /\ CascadeUnused
    /\ IPUnused
    /\ OpsUnused
    /\ \E q \in LocalFieldSizes : \E d \in 1..LocalMaxD : \E h \in [1..d -> 1..(q - 1)] :
          /\ lq = q
          /\ lh = h
    /\ lpc = "enum"
    /\ codewords = <<>>
    /\ auxVars = <<>>
    /\ lcons = <<>>
    /\ lpos = <<1, 1>>

\* one iteration of the loop at lines 83-89
EnumStep ==
    /\ lpc = "enum"
    /\ Len(codewords) < NumLocalwords(lh, lq)
    /\ codewords' = Append(codewords, CodewordAt(Len(codewords), lh, lq))
    /\ auxVars' = Append(auxVars, <<"w", Len(codewords)>>)
    /\ UNCHANGED <<lq, lh, lpc, lcons, lpos>>
    /\ UNCHANGED <<cascadeVars, ipVars, opsVars>>

\* lines 90-92: the constraint auxSum
AddAuxSum ==
    /\ lpc = "enum"
    /\ Len(codewords) = NumLocalwords(lh, lq)
    /\ lcons' = Append(lcons, [name |-> "auxSum", vars |-> {auxVars[k] : k \in 1..Len(auxVars)},
                               pos |-> <<0, 0>>])
    /\ lpc' = "consis"
    /\ UNCHANGED <<lq, lh, codewords, auxVars, lpos>>
    /\ UNCHANGED <<cascadeVars, ipVars, opsVars>>

\* one iteration of the loops at lines 93-102
ConsisStep ==
    /\ lpc = "consis"
    /\ IF Taken(codewords, lpos[1], lpos[2])
       THEN /\ lcons' = Append(lcons, [name |-> "consis",
                                       vars |-> ConsisVars(codewords, lpos[1], lpos[2]),
                                       pos  |-> lpos])
            /\ lpos' = NextPos(lpos, lq)
            /\ lpc' = IF NextPos(lpos, lq)[1] > Len(lh) THEN "done" ELSE "consis"
       ELSE /\ lpc' = "error"          \* raise NotImplementedError()
            /\ UNCHANGED <<lcons, lpos>>
    /\ UNCHANGED <<lq, lh, codewords, auxVars>>
    /\ UNCHANGED <<cascadeVars, ipVars, opsVars>>

LocalNext == EnumStep \/ AddAuxSum \/ ConsisStep

(***************************************************************************)
(* StaticLPDecoder.__init__: the polytopes of one parity-check row         *)
(***************************************************************************)
\* variable references: <<"x", position, alpha>> is self.x[position, alpha],
\* <<"chi", i, alpha>> is chi[i, alpha]

\* the whole call createLocalCodePolytope(jname, h, xvars): the auxiliary
\* variables, the constraint auxSum over them, one consistency constraint per
\* pair (i, alpha), and whether NotImplementedError is raised (lines 79-102)
createLocalCodePolytope(jname, h, xvars, q) ==
    LET cws == [k \in 1..NumLocalwords(h, q) |-> CodewordAt(k - 1, h, q)]
        pairs == {<<i, alpha>> : i \in 1..Len(h), alpha \in 1..(q - 1)}
    IN  [jname  |-> jname,
         aux    |-> {<<"w", k - 1>> : k \in 1..Len(cws)},
         consis |-> {[vars |-> ConsisVars(cws, pr[1], pr[2]), target |-> xvars[pr]] :
                        pr \in {pp \in pairs : Taken(cws, pp[1], pp[2])}},
         raised |-> \E pr \in pairs : ~Taken(cws, pr[1], pr[2])]

\* line 36: np.flatnonzero(row), as the increasing sequence of positions
RECURSIVE flatnonzero(_, _)
flatnonzero(row, from) ==
    IF from > Len(row) THEN <<>>
    ELSE IF row[from] # 0 THEN <<from>> \o flatnonzero(row, from + 1)
         ELSE flatnonzero(row, from + 1)

nonzeros == flatnonzero(crow, 1)

\* line 37: h = row[nonzeros]
RowH == [k \in 1..Len(nonzeros) |-> crow[nonzeros[k]]]

\* line 38: d = h.size
RowD == Len(nonzeros)

\* lines 46-51: coefficients and variables of link 0
Link0Coeffs(h) == <<h[1], h[2], 1>>

xvars1(q) ==
    [pr \in {1, 2, 3} \X (1..(q - 1)) |->
        IF pr[1] = 1 THEN <<"x", nonzeros[1], pr[2]>>
        ELSE IF pr[1] = 2 THEN <<"x", nonzeros[2], pr[2]>>
        ELSE <<"chi", 1, pr[2]>>]

\* faulty variant of MidLinkCoeffs: the incoming carry enters with coefficient 1
MidLinkCoeffsPlusCarry(h, l, q) == <<1, h[l + 2], 1>>

\* lines 58-59: np.array([code.q-1, h[l+1], 1]) (h indexed from 1 here)
MidLinkCoeffs(h, l, q) == <<q - 1, h[l + 2], 1>>

\* lines 53-57
xvarsl(l, q) ==
    [pr \in {1, 2, 3} \X (1..(q - 1)) |->
        IF pr[1] = 1 THEN <<"chi", l, pr[2]>>
        ELSE IF pr[1] = 2 THEN <<"x", nonzeros[l + 2], pr[2]>>
        ELSE <<"chi", l + 1, pr[2]>>]

\* line 67: np.array([code.q - 1, h[-2], h[-1]])
LastLinkCoeffs(h, q) == <<q - 1, h[Len(h) - 1], h[Len(h)]>>

\* lines 61-65
xvarsd(d, q) ==
    [pr \in {1, 2, 3} \X (1..(q - 1)) |->
        IF pr[1] = 1 THEN <<"chi", d - 3, pr[2]>>
        ELSE IF pr[1] = 2 THEN <<"x", nonzeros[d - 1], pr[2]>>
        ELSE <<"x", nonzeros[d], pr[2]>>]

\* lines 70-71: the variables of the direct polytope
directVars(d, q) ==
    [pr \in (1..d) \X (1..(q - 1)) |-> <<"x", nonzeros[pr[1]], pr[2]>>]

(***************************************************************************)
(* Which symbol assignments a built model admits                           *)
(***************************************************************************)
\* the 0/1 assignments of a set of auxiliary variables with sum <= 1 (the
\* constraint auxSum, lines 91-92), each given as the set of variables at 1
AtMostOne(aux) == {{}} \cup {{a} : a \in aux}

\* value of a variable reference: the one-hot indicator of x, or the value
\* chosen for a carry variable
VarValue(ref, x, chiVal) ==
    IF ref[1] = "x" THEN (IF x[ref[2]] = ref[3] THEN 1 ELSE 0) ELSE chiVal[ref]

\* some 0/1 assignment of the auxiliary variables satisfies auxSum and every
\* consistency constraint of the polytope
PolytopeFeasible(p, x, chiVal) ==
    \E S \in AtMostOne(p.aux) :
        \A c \in p.consis : Cardinality(S \cap c.vars) = VarValue(c.target, x, chiVal)

\* the carry variables polytope p refers to
ChiOf(p) == {c.target : c \in {cc \in p.consis : cc.target[1] = "chi"}}

\* some 0/1 assignment of the carry variables not yet assigned and of the
\* auxiliary variables satisfies the polytopes k, k+1, ... of ps
RECURSIVE Completable(_, _, _, _)
Completable(ps, k, x, chiVal) ==
    IF k > Len(ps) THEN TRUE
    ELSE \E a \in [ChiOf(ps[k]) \ DOMAIN chiVal -> {0, 1}] :
            /\ PolytopeFeasible(ps[k], x, chiVal @@ a)
            /\ Completable(ps, k + 1, x, chiVal @@ a)

(***************************************************************************)
(* SpecCascade                                                             *)
(***************************************************************************)
\* rows with at least one nonzero entry
CascadeInit ==
    /\ LocalUnused
    /\ IPUnused
    /\ OpsUnused
    /\ \E q \in CascadeFieldSizes :
       \E row \in {r \in [1..CascadeRowLen -> 0..(q - 1)] : \E i \in 1..CascadeRowLen : r[i] # 0} :
          /\ cq = q
          /\ crow = row
    /\ cascade \in BOOLEAN
    /\ cpc = "start"
    /\ chi = {}
    /\ polys = <<>>
    /\ cl = 0
    /\ cx = <<>>
    /\ accepted = FALSE

\* lines 40-45
CreateChi ==
    /\ cpc = "start"
    /\ cascade /\ RowD > 3
    /\ chi' = {<<"chi", i, alpha>> : i \in 1..(RowD - 3), alpha \in 1..(cq - 1)}
    /\ cpc' = "link0"
    /\ UNCHANGED <<cq, crow, cascade, polys, cl, cx, accepted>>
    /\ UNCHANGED <<localVars, ipVars, opsVars>>

\* lines 46-51
Link0 ==
    /\ cpc = "link0"
    /\ LET p == createLocalCodePolytope(<<0>>, Link0Coeffs(RowH), xvars1(cq), cq)
       IN  /\ polys' = Append(polys, p)
           /\ cpc' = IF p.raised THEN "error" ELSE "mid"
    /\ cl' = 1
    /\ UNCHANGED <<cq, crow, cascade, chi, cx, accepted>>
    /\ UNCHANGED <<localVars, ipVars, opsVars>>

\* one iteration of the loop at lines 52-60
LinkMid ==
    /\ cpc = "mid"
    /\ cl < RowD - 3
    /\ LET p == createLocalCodePolytope(<<cl>>, MidLinkCoeffs(RowH, cl, cq), xvarsl(cl, cq), cq)
       IN  /\ polys' = Append(polys, p)
           /\ cpc' = IF p.raised THEN "error" ELSE "mid"
    /\ cl' = cl + 1
    /\ UNCHANGED <<cq, crow, cascade, chi, cx, accepted>>
    /\ UNCHANGED <<localVars, ipVars, opsVars>>

\* lines 61-68
LinkLast ==
    /\ cpc = "mid"
    /\ cl = RowD - 3
    /\ LET p == createLocalCodePolytope(<<RowD - 3>>, LastLinkCoeffs(RowH, cq),
                                        xvarsd(RowD, cq), cq)
       IN  /\ polys' = Append(polys, p)
           /\ cpc' = IF p.raised THEN "error" ELSE "built"
    /\ UNCHANGED <<cq, crow, cascade, chi, cl, cx, accepted>>
    /\ UNCHANGED <<localVars, ipVars, opsVars>>

\* lines 69-72
BuildDirect ==
    /\ cpc = "start"
    /\ ~(cascade /\ RowD > 3)
    /\ LET p == createLocalCodePolytope(<<>>, RowH, directVars(RowD, cq), cq)
       IN  /\ polys' = Append(polys, p)
           /\ cpc' = IF p.raised THEN "error" ELSE "built"
    /\ UNCHANGED <<cq, crow, cascade, chi, cl, cx, accepted>>
    /\ UNCHANGED <<localVars, ipVars, opsVars>>

\* a symbol assignment (0 outside the row's support) is tried against the model
Evaluate ==
    /\ cpc = "built"
    /\ \E x \in [1..CascadeRowLen -> 0..(cq - 1)] :
          /\ \A i \in 1..CascadeRowLen : crow[i] = 0 => x[i] = 0
          /\ cx' = x
          /\ accepted' = Completable(polys, 1, x, <<>>)
    /\ cpc' = "evaluated"
    /\ UNCHANGED <<cq, crow, cascade, chi, polys, cl>>
    /\ UNCHANGED <<localVars, ipVars, opsVars>>

CascadeNext == CreateChi \/ Link0 \/ LinkMid \/ LinkLast \/ BuildDirect \/ Evaluate

(***************************************************************************)
(* The direct IP formulation: constructors of the IP decoders              *)
(***************************************************************************)
\* parity-check matrix of the (7,4) Hamming code; every row has weight 4
HammingH == << <<0, 0, 0, 1, 1, 1, 1>>,
               <<0, 1, 1, 0, 0, 1, 1>>,
               <<1, 0, 1, 0, 1, 0, 1>> >>

\* np.sum of a row
RECURSIVE RowSum(_)
RowSum(row) == IF Len(row) = 0 THEN 0 ELSE row[1] + RowSum(Tail(row))

\* the bound of the claim: floor(rowsum * (q-1) / q)
zUpperBoundByQ(row, q) == (RowSum(row) * (q - 1)) \div q

\* line 146: ub = np.sum(matrix[i]) * (code.q - 1) // 3
zUpperBound(row, q) == (RowSum(row) * (q - 1)) \div 3

\* lines 150-155: the Gurobi row equality has coefficient row[i] (and k, folded
\* into the symbol value) on the positions of np.flatnonzero(row) and -q on z
GurobiRowConstraint(row, q) ==
    [xcoef |-> [i \in 1..Len(row) |-> IF row[i] # 0 THEN row[i] ELSE 0], zcoef |-> 0 - q]

\* lines 42-46: the Cplex row equality has coefficient row[i] on the positions
\* with row[i] nonzero and -2 on z (sense and right-hand side are the defaults
\* of linear_constraints.add: equality, 0)
CplexRowConstraint(row) ==
    [xcoef |-> [i \in 1..Len(row) |-> IF row[i] # 0 THEN row[i] ELSE 0], zcoef |-> 0 - 2]

\* the values z[j] may take: its declared bounds; a variable declared without
\* bounds (line 38) has the backend's default bounds [0, infinity), of which
\* only the values up to the largest left-hand side can satisfy the equality
zRange(zb, row, q) ==
    IF zb.bounded THEN zb.lb..zb.ub ELSE zb.lb..(RowSum(row) * (q - 1))

\* some integer z[j] inside its bounds satisfies the j-th row equality for x
RowSatisfiable(j, x) ==
    \E z \in zRange(iz[j], iH[j], iq) : Dot(irows[j].xcoef, x) + irows[j].zcoef * z = 0

\* x is a codeword: H * x = 0 mod q
IsCodeword(H, x, q) == \A j \in 1..Len(H) : Dot(H[j], x) % q = 0

\* the codes of SpecIP: the Hamming code and every one-row code of length IPRowLen
IPCodes ==
    {<<2, HammingH>>} \cup
    UNION {{<<q, <<row>> >> : row \in [1..IPRowLen -> 0..(q - 1)]} : q \in IPFieldSizes}

IPInit ==
    /\ LocalUnused
    /\ CascadeUnused
    /\ OpsUnused
    /\ ikind \in {"Cplex", "Gurobi"}
    /\ \E c \in IPCodes :
          /\ iq = c[1]
          /\ iH = c[2]
    /\ ikind = "Cplex" => iq = 2
    /\ ipc = "new"
    /\ ixkeys = "none"
    /\ iposc = 0
    /\ iz = <<>>
    /\ irows = <<>>
    /\ ix = <<>>
    /\ iaccept = FALSE

\* GurobiIPDecoder.__init__ lines 131-140: self.x is a list for q = 2 and a
\* dictionary keyed by (i, k) otherwise
GurobiAddX ==
    /\ ikind = "Gurobi"
    /\ ipc = "new"
    /\ ixkeys' = IF iq = 2 THEN "list" ELSE "dict"
    /\ ipc' = "x"
    /\ UNCHANGED <<ikind, iq, iH, iposc, iz, irows, ix, iaccept>>
    /\ UNCHANGED <<localVars, cascadeVars, opsVars>>

\* lines 141-143: one constraint sum_k x[i, k] <= 1 per position. The loop is
\* not guarded by q: when self.x is a list (q = 2), self.x[i, k] indexes a
\* list by a tuple and raises TypeError, which ends the constructor
GurobiPositionConstraints ==
    /\ ikind = "Gurobi"
    /\ ipc = "x"
    /\ IF ixkeys = "list" /\ Len(iH[1]) > 0
       THEN /\ ipc' = "TypeError"
            /\ UNCHANGED iposc
       ELSE /\ ipc' = "pos"
            /\ iposc' = Len(iH[1])
    /\ UNCHANGED <<ikind, iq, iH, ixkeys, iz, irows, ix, iaccept>>
    /\ UNCHANGED <<localVars, cascadeVars, opsVars>>

\* lines 144-148: z[i] integer with bounds [0, ub]
GurobiAddZ ==
    /\ ikind = "Gurobi"
    /\ ipc = "pos"
    /\ iz' = [j \in 1..Len(iH) |-> [bounded |-> TRUE, lb |-> 0, ub |-> zUpperBound(iH[j], iq)]]
    /\ ipc' = "z"
    /\ UNCHANGED <<ikind, iq, iH, ixkeys, iposc, irows, ix, iaccept>>
    /\ UNCHANGED <<localVars, cascadeVars, opsVars>>

\* lines 149-157
GurobiAddRows ==
    /\ ikind = "Gurobi"
    /\ ipc = "z"
    /\ irows' = [j \in 1..Len(iH) |-> GurobiRowConstraint(iH[j], iq)]
    /\ ipc' = "built"
    /\ UNCHANGED <<ikind, iq, iH, ixkeys, iposc, iz, ix, iaccept>>
    /\ UNCHANGED <<localVars, cascadeVars, opsVars>>

\* CplexIPDecoder.__init__ lines 35-38: the base constructor creates the binary
\* variables self.x; the z are added as integer variables without bounds
CplexAddZ ==
    /\ ikind = "Cplex"
    /\ ipc = "new"
    /\ ixkeys' = "list"
    /\ iz' = [j \in 1..Len(iH) |-> [bounded |-> FALSE, lb |-> 0, ub |-> 0]]
    /\ ipc' = "z"
    /\ UNCHANGED <<ikind, iq, iH, iposc, irows, ix, iaccept>>
    /\ UNCHANGED <<localVars, cascadeVars, opsVars>>

\* lines 39-46
CplexAddRows ==
    /\ ikind = "Cplex"
    /\ ipc = "z"
    /\ irows' = [j \in 1..Len(iH) |-> CplexRowConstraint(iH[j])]
    /\ ipc' = "built"
    /\ UNCHANGED <<ikind, iq, iH, ixkeys, iposc, iz, ix, iaccept>>
    /\ UNCHANGED <<localVars, cascadeVars, opsVars>>

\* a symbol vector is tried against the built formulation
IPEvaluate ==
    /\ ipc = "built"
    /\ \E x \in [1..Len(iH[1]) -> 0..(iq - 1)] :
          /\ ix' = x
          /\ iaccept' = \A j \in 1..Len(iH) : RowSatisfiable(j, x)
    /\ ipc' = "evaluated"
    /\ UNCHANGED <<ikind, iq, iH, ixkeys, iposc, iz, irows>>
    /\ UNCHANGED <<localVars, cascadeVars, opsVars>>

IPNext ==
    \/ GurobiAddX \/ GurobiPositionConstraints \/ GurobiAddZ \/ GurobiAddRows
    \/ CplexAddZ \/ CplexAddRows \/ IPEvaluate

(***************************************************************************)
(* Operations of a constructed decoder                                     *)
(***************************************************************************)
\* the decoders that can be constructed: CplexIPDecoder is binary; the
\* constructor of GurobiIPDecoder ends for q = 2 with the TypeError of
\* GurobiPositionConstraints, so only nonbinary instances exist
OpsDecoders == {<<"CplexIP", 2>>, <<"GurobiIP", 3>>}

\* the decoders whose solve is in the sources
SolveDecoders == {<<"GurobiIP", 3>>, <<"StaticLP", 3>>}

\* the variables of the model after construction
BaseVars(kind, q) ==
    IF kind = "StaticLP"
    THEN {<<"x", i, k>> : i \in 1..NPos, k \in 1..(q - 1)} \cup {<<"w", 0, 0>>}
    ELSE IF kind = "GurobiIP"
    THEN {<<"x", i, k>> : i \in 1..NPos, k \in 1..(q - 1)} \cup {<<"z", 0, 0>>}
    ELSE {<<"x", i, 1>> : i \in 1..NPos} \cup {<<"z", 0, 0>>}

\* the constraints of the model after construction (one parity-check row)
BaseConstrs(kind) ==
    IF kind = "StaticLP" THEN <<"auxSum0", "consis_0">>
    ELSE IF kind = "GurobiIP" THEN <<"sum_x_le_1", "row_0">>
    ELSE <<"parity_check_0">>

\* name of the constraint minimumDistance adds (ip.py lines 55 and 234)
ExtraName(kind) == IF kind = "CplexIP" THEN "nonzero" ELSE "excludeZero"

\* number of constraints of that name in the model
ExtraCount(cs, name) == Cardinality({k \in 1..Len(cs) : cs[k] = name})

\* faulty variant of RemoveConstr: the constraint is left in the model
RemoveConstrNothing(cs, name) == cs

\* lines 59 and 238-239: the (first) constraint of that name is removed
RemoveConstr(cs, name) ==
    IF \E k \in 1..Len(cs) : cs[k] = name
    THEN LET first == CHOOSE k \in 1..Len(cs) :
                         cs[k] = name /\ \A m \in 1..(k - 1) : cs[m] # name
         IN  SubSeq(cs, 1, first - 1) \o SubSeq(cs, first + 1, Len(cs))
    ELSE cs

DefaultBounds == /\ \A i \in 1..NPos : lbs[i] = 0 /\ ubs[i] = 1

\* what one optimize call of the backend can report: its status, the best
\* objective recorded by the early-stop callback (cb), the objective of the
\* final incumbent (objVal, NoneVal without incumbent), the node or
\* iteration count and the duration measured by the timer.
\*  - the callback runs only when a sent codeword is known and interrupts the
\*    solve; the incumbent can still improve before the solver stops;
\*  - an optimal solve has an incumbent;
\*  - the model is infeasible only under fixed bounds or with the constraint of
\*    minimumDistance in it.
Outcomes(hasSent, restricted) ==
    {b \in [status : {"OPTIMAL", "INTERRUPTED", "INFEASIBLE", "TIME_LIMIT"},
            cb     : NoneVal..MaxObj,
            objVal : NoneVal..MaxObj,
            count  : 0..MaxCount,
            dur    : 0..MaxCount] :
        /\ b.cb # NoneVal =>
              hasSent /\ b.status = "INTERRUPTED" /\ b.objVal # NoneVal /\ b.objVal <= b.cb
        /\ b.status = "OPTIMAL" => b.objVal # NoneVal
        /\ b.status = "INFEASIBLE" => restricted /\ b.objVal = NoneVal}

\* faulty variant of StatAfter: the counter is reset to the count of this call
StatAfterReset(old, count) == count

\* ip.py line 214, staticlp.py lines 114-115: stats[...] += count
StatAfter(old, count) == old + count

\* GurobiIPDecoder.solve (lines 184-224) for backend report b; hasSent is
\* "self.sent is not None". The result gives the attributes after the call and
\* the exception raised, if any.
GurobiSolve(hasSent, b) ==
    LET inc == IF hasSent THEN b.cb ELSE incObj         \* lines 204, 181
        interrupted == b.status = "INTERRUPTED"         \* line 208
    IN  IF interrupted /\ (~hasSent \/ inc = NoneVal)   \* line 209
        THEN [raised |-> "KeyboardInterrupt", mlCertificate |-> TRUE, incObj |-> inc,
              objectiveValue |-> objectiveValue, nodes |-> nodes, solution |-> solution]
        ELSE LET ov     == IF interrupted THEN inc ELSE objectiveValue    \* line 212
                 cert   == ~interrupted                                   \* lines 187, 213
                 nnodes == StatAfter(nodes, b.count)                      \* line 214
             IN  IF b.objVal = NoneVal                                    \* line 215 raises
                 THEN [raised |-> "AttributeError", mlCertificate |-> cert, incObj |-> inc,
                       objectiveValue |-> ov, nodes |-> nnodes, solution |-> solution]
                 ELSE [raised |-> "none", mlCertificate |-> cert, incObj |-> inc,
                       objectiveValue |-> b.objVal,                       \* line 215
                       nodes |-> nnodes, solution |-> b.objVal]           \* lines 216-224

\* CplexDecoder.solve (cplexhelpers, not part of the sources): optimal results
\* are read back and certified; an interrupted solve is accepted uncertified
\* with the best-found objective when a sent codeword and a best-found
\* objective exist and raises the cancellation otherwise; other statuses raise
CplexSolve(hasSent, b) ==
    IF b.status = "OPTIMAL"
    THEN [raised |-> "none", mlCertificate |-> TRUE, incObj |-> incObj,
          objectiveValue |-> b.objVal, nodes |-> nodes, solution |-> b.objVal]
    ELSE IF b.status = "INTERRUPTED"
    THEN IF hasSent /\ b.cb # NoneVal
         THEN [raised |-> "none", mlCertificate |-> FALSE, incObj |-> incObj,
               objectiveValue |-> b.cb, nodes |-> nodes, solution |-> b.objVal]
         ELSE [raised |-> "KeyboardInterrupt", mlCertificate |-> mlCertificate,
               incObj |-> incObj, objectiveValue |-> objectiveValue, nodes |-> nodes,
               solution |-> solution]
    ELSE [raised |-> "SolverError", mlCertificate |-> mlCertificate, incObj |-> incObj,
          objectiveValue |-> objectiveValue, nodes |-> nodes, solution |-> solution]

Solve(kind, hasSent, b) == IF kind = "CplexIP" THEN CplexSolve(hasSent, b) ELSE GurobiSolve(hasSent, b)

Outcome(r) == IF r.raised = "none" THEN "ok" ELSE r.raised

\* the reports followed for a decoder: no statistics are modelled for CplexIP,
\* and only StaticLPDecoder.solve measures the duration
OutcomesFor(kind, hasSent, restricted) ==
    {b \in Outcomes(hasSent, restricted) :
        /\ kind = "CplexIP" => b.count = 0
        /\ kind # "StaticLP" => b.dur = 0}

Recorded(kind, b) == IF kind = "CplexIP" THEN NoBackend ELSE b

Constructed(decoders) ==
    /\ LocalUnused
    /\ CascadeUnused
    /\ IPUnused
    /\ \E dcd \in decoders :
          /\ okind = dcd[1]
          /\ oq = dcd[2]
          /\ modelVars = BaseVars(dcd[1], dcd[2])
          /\ modelConstrs = BaseConstrs(dcd[1])
    /\ opc = "idle"
    /\ lbs = [i \in 1..NPos |-> 0]
    /\ ubs = [i \in 1..NPos |-> 1]
    /\ objective = "llrs"
    /\ sent = FALSE
    /\ incObj = NoneVal
    /\ objectiveValue = NoneVal
    /\ mlCertificate = TRUE
    /\ solution = NoneVal
    /\ nodes = 0
    /\ simplexIters = 0
    /\ lpTime = 0
    /\ backend = NoBackend
    /\ lastCall = NoCall
    /\ mdFailed = FALSE
    /\ hist = NoHist

\* decode on an IP decoder: setLLRs(llrs, sent) (lines 168-171), then solve
IPDecode ==
    /\ okind \in {"CplexIP", "GurobiIP"}
    /\ opc = "idle"
    /\ \E hasSent \in BOOLEAN :
       \E b \in OutcomesFor(okind, hasSent,
                            ~DefaultBounds \/ ExtraCount(modelConstrs, ExtraName(okind)) > 0) :
          LET r == Solve(okind, hasSent, b)
          IN  /\ r.nodes <= MaxStat
              /\ sent' = hasSent
              /\ backend' = Recorded(okind, b)
              /\ incObj' = r.incObj
              /\ objectiveValue' = r.objectiveValue
              /\ mlCertificate' = r.mlCertificate
              /\ solution' = r.solution
              /\ nodes' = r.nodes
              /\ lastCall' = [op |-> "decode", idx |-> 0, val |-> 0, outcome |-> Outcome(r)]
    /\ objective' = "llrs"
    /\ hist' = NoHist
    /\ UNCHANGED <<okind, oq, opc, modelVars, modelConstrs, lbs, ubs, simplexIters, lpTime,
                   mdFailed>>
    /\ UNCHANGED <<localVars, cascadeVars, ipVars>>

\* decode on the static LP decoder: StaticLPDecoder.solve (lines 111-119);
\* readSolution() tells whether the LP solution is integral
StaticLPDecode ==
    /\ okind = "StaticLP"
    /\ opc = "idle"
    /\ \E hasSent \in BOOLEAN : \E b \in OutcomesFor("StaticLP", FALSE, FALSE) :
       \E integral \in BOOLEAN :
          /\ b.status \in {"OPTIMAL", "TIME_LIMIT"}
          /\ b.status # "OPTIMAL" => ~integral
          /\ StatAfter(lpTime, b.dur) <= MaxStat
          /\ StatAfter(simplexIters, b.count) <= MaxStat
          /\ sent' = hasSent
          /\ backend' = b
          /\ lpTime' = StatAfter(lpTime, b.dur)                  \* line 114
          /\ simplexIters' = StatAfter(simplexIters, b.count)    \* line 115
          /\ IF b.status = "OPTIMAL"                             \* line 116
             THEN /\ mlCertificate' = integral                   \* line 117
                  /\ solution' = b.objVal
                  /\ objectiveValue' = b.objVal
                  /\ lastCall' = [op |-> "decode", idx |-> 0, val |-> 0, outcome |-> "ok"]
             ELSE /\ UNCHANGED <<mlCertificate, solution, objectiveValue>>
                  /\ lastCall' = [op |-> "decode", idx |-> 0, val |-> 0,
                                  outcome |-> "RuntimeError"]    \* line 119
    /\ objective' = "llrs"
    /\ hist' = NoHist
    /\ UNCHANGED <<okind, oq, opc, modelVars, modelConstrs, lbs, ubs, incObj, nodes, mdFailed>>
    /\ UNCHANGED <<localVars, cascadeVars, ipVars>>

\* CplexIPDecoder.fix (lines 62-66)
FixBounds(l, u, index, value) ==
    IF value = 0 THEN [lb |-> l, ub |-> [u EXCEPT ![index] = 0]]
    ELSE [lb |-> [l EXCEPT ![index] = 1], ub |-> u]

\* faulty variant of ReleaseBounds: only the upper bound is restored
ReleaseBoundsUpperOnly(l, u, index) == [lb |-> l, ub |-> [u EXCEPT ![index] = 1]]

\* CplexIPDecoder.release (lines 68-70)
ReleaseBounds(l, u, index) == [lb |-> [l EXCEPT ![index] = 0], ub |-> [u EXCEPT ![index] = 1]]

Fix ==
    /\ okind = "CplexIP"
    /\ opc = "idle"
    /\ \E index \in 1..NPos : \E value \in {0, 1} :
          /\ lbs' = FixBounds(lbs, ubs, index, value).lb
          /\ ubs' = FixBounds(lbs, ubs, index, value).ub
          /\ lastCall' = [op |-> "fix", idx |-> index, val |-> value, outcome |-> "ok"]
          /\ hist' = [phase |-> "fixed", idx |-> index, val |-> value, lb |-> lbs, ub |-> ubs,
                      vars |-> modelVars, constrs |-> modelConstrs]
    /\ UNCHANGED <<okind, oq, opc, modelVars, modelConstrs, objective, sent, incObj,
                   objectiveValue, mlCertificate, solution, nodes, simplexIters, lpTime,
                   backend, mdFailed>>
    /\ UNCHANGED <<localVars, cascadeVars, ipVars>>

Release ==
    /\ okind = "CplexIP"
    /\ opc = "idle"
    /\ \E index \in 1..NPos :
          /\ lbs' = ReleaseBounds(lbs, ubs, index).lb
          /\ ubs' = ReleaseBounds(lbs, ubs, index).ub
          /\ lastCall' = [op |-> "release", idx |-> index, val |-> 0, outcome |-> "ok"]
          /\ hist' = IF hist.phase = "fixed" /\ hist.idx = index
                     THEN [hist EXCEPT !.phase = "released"]
                     ELSE NoHist
    /\ UNCHANGED <<okind, oq, opc, modelVars, modelConstrs, objective, sent, incObj,
                   objectiveValue, mlCertificate, solution, nodes, simplexIters, lpTime,
                   backend, mdFailed>>
    /\ UNCHANGED <<localVars, cascadeVars, ipVars>>

\* minimumDistance up to its call of solve: lines 54-57 (Cplex), 233-236 (Gurobi)
MinimumDistanceBegin ==
    /\ okind \in {"CplexIP", "GurobiIP"}
    /\ opc = "idle"
    /\ IF okind = "GurobiIP" /\ oq # 2
       THEN \* line 233: assert self.code.q == 2
            /\ lastCall' = [op |-> "minimumDistance", idx |-> 0, val |-> 0,
                            outcome |-> "AssertionError"]
            /\ mdFailed' = TRUE
            /\ UNCHANGED <<opc, modelConstrs, objective, sent>>
       ELSE /\ ExtraCount(modelConstrs, ExtraName(okind)) < MaxStale
            /\ modelConstrs' = Append(modelConstrs, ExtraName(okind))
            /\ objective' = "ones"
            /\ sent' = FALSE
            /\ opc' = "minDist"
            /\ lastCall' = [op |-> "minimumDistance", idx |-> 0, val |-> 0,
                            outcome |-> "running"]
            /\ UNCHANGED mdFailed
    /\ hist' = NoHist
    /\ UNCHANGED <<okind, oq, modelVars, lbs, ubs, incObj, objectiveValue, mlCertificate,
                   solution, nodes, simplexIters, lpTime, backend>>
    /\ UNCHANGED <<localVars, cascadeVars, ipVars>>

\* the rest of minimumDistance: solve, then the removal of the constraint
\* (lines 58-60 and 237-240); an exception raised by solve leaves the method
MinimumDistanceSolve ==
    /\ opc = "minDist"
    /\ \E b \in OutcomesFor(okind, FALSE, TRUE) :
          LET r == Solve(okind, FALSE, b)
          IN  /\ r.nodes <= MaxStat
              /\ backend' = Recorded(okind, b)
              /\ incObj' = r.incObj
              /\ objectiveValue' = r.objectiveValue
              /\ mlCertificate' = r.mlCertificate
              /\ solution' = r.solution
              /\ nodes' = r.nodes
              /\ lastCall' = [op |-> "minimumDistance", idx |-> 0, val |-> 0,
                              outcome |-> Outcome(r)]
              /\ IF r.raised = "none"
                 THEN /\ modelConstrs' = RemoveConstr(modelConstrs, ExtraName(okind))
                      /\ UNCHANGED mdFailed
                 ELSE /\ UNCHANGED modelConstrs
                      /\ mdFailed' = TRUE
    /\ opc' = "idle"
    /\ UNCHANGED <<okind, oq, modelVars, lbs, ubs, objective, sent, simplexIters, lpTime, hist>>
    /\ UNCHANGED <<localVars, cascadeVars, ipVars>>

OpsInit == Constructed(OpsDecoders)

OpsNext == IPDecode \/ Fix \/ Release \/ MinimumDistanceBegin \/ MinimumDistanceSolve

SolveInit == Constructed(SolveDecoders)

SolveNext == IPDecode \/ StaticLPDecode \/ MinimumDistanceBegin

vars == <<localVars, cascadeVars, ipVars, opsVars>>

SpecOps == OpsInit /\ [][OpsNext]_vars

SpecSolve == SolveInit /\ [][SolveNext]_vars

SpecIP == IPInit /\ [][IPNext]_vars

SpecLocal == LocalInit /\ [][LocalNext]_vars

SpecCascade == CascadeInit /\ [][CascadeNext]_vars

(***************************************************************************)
(* Claims on the direct IP formulation                                     *)
(***************************************************************************)
\* C1: for the binary (7,4) Hamming code the constructor yields a formulation
\* in which a 0/1 vector x can be completed by integers z[j] inside their
\* declared bounds satisfying every row equality iff x is a codeword.
C1_DirectIPAcceptsCodewords ==
    (iq = 2 /\ iH = HammingH) =>
        /\ ipc # "TypeError"
        /\ ipc = "evaluated" => (iaccept <=> IsCodeword(iH, ix, iq))

\* C8: every declared z[j] has bounds 0 <= z[j] <= floor(rowsum*(q-1)/q).
C8_ZBound ==
    (ikind = "Gurobi" /\ ipc \in {"z", "built", "evaluated"}) =>
        \A j \in 1..Len(iz) :
            /\ iz[j].bounded
            /\ iz[j].lb = 0
            /\ iz[j].ub = zUpperBoundByQ(iH[j], iq)

(***************************************************************************)
(* Claims on the operations of a constructed decoder                       *)
(***************************************************************************)
\* C4: as long as no minimumDistance call has ended with an exception, the
\* variables of the model are those of the construction, between calls the
\* constraints are those of the construction, and the constraint added by
\* minimumDistance is in the model only while a minimumDistance call is in
\* progress.
C4_MinDistTransient ==
    ~mdFailed =>
        /\ modelVars = BaseVars(okind, oq)
        /\ opc = "idle" => modelConstrs = BaseConstrs(okind)
        /\ opc = "minDist" => modelConstrs = Append(BaseConstrs(okind), ExtraName(okind))
        /\ ExtraCount(modelConstrs, ExtraName(okind)) > 0 => opc = "minDist"

\* a minimumDistance call has returned normally, after a decode had fixed bounds
C4_Witness ==
    /\ opc = "idle"
    /\ ~mdFailed
    /\ lastCall.op = "minimumDistance"
    /\ lastCall.outcome = "ok"
    /\ objective = "ones"
    /\ ~DefaultBounds

\* C9: when control is back at the caller, however minimumDistance ended, its
\* constraint is no longer in the model.
C9_ConstraintRemovedOnEveryExit ==
    opc = "idle" => ExtraCount(modelConstrs, ExtraName(okind)) = 0

\* C5: release(i) leaves x[i] with bounds [0,1]; fix(i, v) followed by
\* release(i), from default bounds of x[i], gives back the bounds of every
\* variable as they were before the fix; fix and release change no bound of
\* another variable and neither the variables nor the constraints of the model.
C5_FixReleaseRoundTrip ==
    /\ lastCall.op = "release" => lbs[lastCall.idx] = 0 /\ ubs[lastCall.idx] = 1
    /\ hist.phase \in {"fixed", "released"} =>
          /\ \A j \in 1..NPos : j # hist.idx => lbs[j] = hist.lb[j] /\ ubs[j] = hist.ub[j]
          /\ modelVars = hist.vars
          /\ modelConstrs = hist.constrs
    /\ (hist.phase = "released" /\ hist.lb[hist.idx] = 0 /\ hist.ub[hist.idx] = 1) =>
          lbs = hist.lb /\ ubs = hist.ub

\* fix(i, 1) then release(i) from default bounds at i, another variable fixed
C5_Witness ==
    /\ lastCall.op = "release"
    /\ hist.phase = "released"
    /\ hist.val = 1
    /\ hist.lb[hist.idx] = 0 /\ hist.ub[hist.idx] = 1
    /\ \E j \in 1..NPos : j # hist.idx /\ lbs[j] = 1

\* C6: a GurobiIPDecoder solve that ends interrupted with a sent codeword and a
\* best-found objective recorded by the callback returns normally, uncertified,
\* with objectiveValue equal to the recorded objective; an interrupted solve
\* without sent codeword or recorded objective raises the cancellation and
\* changes neither objectiveValue, solution nor statistics; an optimal solve
\* leaves the certified-ML flag set.
C6_InterruptedSolve ==
    [][(okind = "GurobiIP" /\ lastCall'.op = "decode") =>
          /\ (backend'.status = "INTERRUPTED" /\ sent' /\ backend'.cb # NoneVal) =>
                /\ lastCall'.outcome = "ok"
                /\ ~mlCertificate'
                /\ objectiveValue' = backend'.cb
          /\ (backend'.status = "INTERRUPTED" /\ (~sent' \/ backend'.cb = NoneVal)) =>
                /\ lastCall'.outcome = "KeyboardInterrupt"
                /\ UNCHANGED <<objectiveValue, solution, nodes>>
          /\ backend'.status = "OPTIMAL" => mlCertificate'
      ]_vars

\* C7: no call decreases a statistics counter, and a solve that returns
\* normally adds the backend's count of that call to the counter.
C7_StatsCumulative ==
    [][/\ nodes' >= nodes
       /\ simplexIters' >= simplexIters
       /\ lpTime' >= lpTime
       /\ (lastCall'.op = "decode" /\ lastCall'.outcome = "ok") =>
             /\ okind = "GurobiIP" => nodes' = nodes + backend'.count
             /\ okind = "StaticLP" =>
                   /\ simplexIters' = simplexIters + backend'.count
                   /\ lpTime' = lpTime + backend'.dur
      ]_vars

\* the node counter holds more than the count of the last, successful solve
C7_Witness ==
    /\ okind = "GurobiIP"
    /\ lastCall.op = "decode"
    /\ lastCall.outcome = "ok"
    /\ backend.count = 1
    /\ nodes = 2

(***************************************************************************)
(* Claims on the cascade                                                   *)
(***************************************************************************)
\* C2: for a row of arity d > 3 built with cascade = True, a symbol assignment
\* can be completed by 0/1 values of the carry and auxiliary variables
\* satisfying every link's constraints iff its weighted sum is 0 mod q, which
\* is also exactly when the direct polytope of the same row (cascade = False)
\* admits it.
C2_CascadeEquivalence ==
    (cpc = "evaluated" /\ RowD > 3) => (accepted <=> (Dot(cx, crow) % cq = 0))

\* a cascade over GF(3) with a middle link (d = 5) admitting a nonzero assignment
C2_Witness ==
    /\ cpc = "evaluated"
    /\ cascade
    /\ cq = 3
    /\ RowD = 5
    /\ Len(polys) = 3
    /\ accepted
    /\ \E i \in 1..CascadeRowLen : cx[i] # 0

(***************************************************************************)
(* Claims on createLocalCodePolytope                                       *)
(***************************************************************************)
\* the d-tuples over 0..q-1 whose weighted sum under h is 0 mod q
ZeroSumTuples(h, q) == {c \in [1..Len(h) -> 0..(q - 1)] : Dot(c, h) % q = 0}

EnumerationComplete == lpc \in {"consis", "done", "error"}

\* C3: for every coefficient vector h of arity d >= 2 with entries in 1..q-1,
\* every tuple in the list codewords has weighted sum 0 mod q, and once the
\* enumeration loop has ended the list holds exactly the d-tuples with weighted
\* sum 0 mod q, each exactly once (q^(d-1) tuples), with one auxiliary variable
\* per tuple.
C3_LocalEnumeration ==
    Len(lh) >= 2 =>
        /\ \A k \in 1..Len(codewords) :
              /\ codewords[k] \in [1..Len(lh) -> 0..(lq - 1)]
              /\ Dot(codewords[k], lh) % lq = 0
        /\ Len(auxVars) = Len(codewords)
        /\ EnumerationComplete =>
              /\ {codewords[k] : k \in 1..Len(codewords)} = ZeroSumTuples(lh, lq)
              /\ Len(codewords) = Pow(lq, Len(lh) - 1)
              /\ Cardinality({codewords[k] : k \in 1..Len(codewords)}) = Len(codewords)
              /\ Cardinality({auxVars[k] : k \in 1..Len(auxVars)}) = Len(codewords)

\* a finished enumeration over GF(3) of arity 3 whose coefficients are not all 1
\* and in which some tuple ends in a nonzero forced symbol
C3_Witness ==
    /\ lpc = "done"
    /\ lq = 3
    /\ Len(lh) = 3
    /\ lh[3] = 2
    /\ \E k \in 1..Len(codewords) : codewords[k][3] = 2

\* some enumerated tuple has value alpha at position i
PairCovered(i, alpha) == \E k \in 1..Len(codewords) : codewords[k][i] = alpha

\* the statement of C10 for rows of arity at least minD
LocalErrorClaim(minD) ==
    /\ lpc = "error" => ~PairCovered(lpos[1], lpos[2])
    /\ \A k \in 1..Len(lcons) :
          lcons[k].name = "consis" =>
              /\ PairCovered(lcons[k].pos[1], lcons[k].pos[2])
              /\ lcons[k].vars # {}
    /\ Len(lh) >= minD =>
          /\ lpc # "error"
          /\ EnumerationComplete =>
                \A i \in 1..Len(lh) : \A alpha \in 1..(lq - 1) : PairCovered(i, alpha)
          /\ lpc = "done" =>
                /\ Len(lcons) = Len(lh) * (lq - 1) + 1
                /\ Cardinality({k \in 1..Len(lcons) : lcons[k].name = "auxSum"}) = 1
                /\ \A i \in 1..Len(lh) : \A alpha \in 1..(lq - 1) :
                      Cardinality({k \in 1..Len(lcons) :
                                     lcons[k].name = "consis" /\ lcons[k].pos = <<i, alpha>>}) = 1

\* C10 as stated: createLocalCodePolytope raises exactly when some pair
\* (position, nonzero value) is taken by no enumerated tuple, and for every row
\* of arity d >= 1 with nonzero coefficients the error is never raised and
\* d*(q-1) consistency constraints plus one sum constraint are emitted.
C10_Original == LocalErrorClaim(1)

\* C10 amended: the same for every row of arity d >= 2 (a row of arity 1
\* enumerates the single tuple (0), so the pair (0, 1) is taken by no tuple and
\* the error is raised).
C10_Amended == LocalErrorClaim(2)

\* a finished construction over GF(3) of arity 2: 2*(3-1)+1 constraints
C10_Witness ==
    /\ lpc = "done"
    /\ lq = 3
    /\ Len(lh) = 2
    /\ Len(lcons) = 5

=============================================================================
